---- MODULE Spec2Model ----
(***************************************************************************)
(* Model of the staking derivation layer of packages/api-derive            *)
(* (src/packages/api-derive/src/staking/query.ts): the session-key         *)
(* resolver, the controller resolver, the reactive composition built by    *)
(* query(), the memoization wrapper and the batched queryMulti().          *)
(*                                                                         *)
(* Three specifications share the module:                                  *)
(*   SpecSession  applies the pure function unwrapSessionIds to inputs     *)
(*                drawn from bounded sets;                                 *)
(*   Spec         is one subscription to query(stash) running against a    *)
(*                changing chain state (FairSpec adds the fairness of the  *)
(*                chain API's deliveries);                                 *)
(*   SpecMemo     is the memoized entry points query() and queryMulti().   *)
(***************************************************************************)
EXTENDS Integers, Sequences, FiniteSets, TLC

VARIABLES
    \* ---- SpecSession: one application of unwrapSessionIds
    uIn,          \* the arguments [stashId, queuedKeys, nextKeys]
    uDone,        \* whether the function has been applied to uIn
    uOut,         \* its result
    \* ---- Spec: the chain and one subscription to query(stash)
    stashId,      \* the AccountId created from the argument of query()
    hasErasStakers, \* whether api.query.staking.erasStakers exists
    chain,        \* the chain storage the reads observe
    changes,      \* number of chain changes so far
    subQK,        \* subscription to api.query.session.queuedKeys()
    subIdx,       \* subscription to api.derive.session.indexes()
    subMulti,     \* subscription to api.queryMulti([...])
    subLedger,    \* subscription to api.query.staking.ledger(controllerId)
    clQK,         \* combineLatest: latest queued-keys value (option)
    clMulti,      \* combineLatest: latest multi-read tuple (option)
    status,       \* the subscriber: idle, active, unsubscribed, errored
    lastOut,      \* the result last delivered to the subscriber (option)
    nOut,         \* number of results delivered to the subscriber
    lastOutSrc,   \* history: the reads the last result was emitted under
    lastErr,      \* the read whose failure reached the pipeline (option)
    \* ---- SpecMemo: the memoized entry points query() and queryMulti()
    derive,       \* the memo caches and the observables created so far
    calls,        \* history: the handles each call signature has returned
    nCalls,       \* number of calls made by the application
    repeated,     \* history: the call signatures called more than once
    mSub,         \* the subscription to a queryMulti observable
    mOut,         \* the list last delivered to its subscriber (option)
    nMOut,        \* number of lists delivered to its subscriber
    nEmits,       \* number of per-account results emitted so far
    mSrc,         \* per source observable subscribed to: its latest result
    mLists,       \* the lists combineLatest emitted in its latest step
    \* ---- the pure functions isObservable, resolveController, groupByValidator
    pIn,          \* the arguments of the call
    pDone,        \* whether the function has been applied to pIn
    pOut,         \* its result
    \* ---- the Developer settings page
    dev,          \* the component's state (useState values) and whether it is mounted
    store,        \* the persisted 'types' entry of the browser store
    devOut        \* the handler run last, the status reported last, the types registered last

sessionVars == <<uIn, uDone, uOut>>
queryVars == <<stashId, hasErasStakers, chain, changes, subQK, subIdx,
               subMulti, subLedger, clQK, clMulti, status, lastOut, nOut,
               lastOutSrc, lastErr>>
memoVars == <<derive, calls, nCalls, repeated, mSub, mOut, nMOut, nEmits,
              mSrc, mLists>>
pureVars == <<pIn, pDone, pOut>>
devVars == <<dev, store, devOut>>
vars == <<sessionVars, queryVars, memoVars, pureVars, devVars>>

(***************************************************************************)
(* Bounds of the model.                                                    *)
(***************************************************************************)
MaxRows == 2      \* rows of a queued-keys table
MaxChanges == 2   \* chain changes in one behaviour
MaxCalls == 3     \* calls of query() and queryMulti() in one behaviour
MaxEmits == 3     \* results emitted by the per-account queries

(***************************************************************************)
(* Value domains.                                                          *)
(***************************************************************************)
Stashes == {"s1", "s2"}
Controllers == {"c1", "c2"}
KeyLists == {<<"k1", "k2">>, <<"k3">>}
Eras == {0, 1}

\* Option<T>: the empty sequence is None, <<v>> is Some(v).
None == << >>
Some(v) == <<v>>
IsSome(opt) == opt # << >>
Range(seq) == {seq[i] : i \in DOMAIN seq}
Option(S) == {None} \cup {Some(v) : v \in S}

\* Option.unwrapOr(def)
unwrapOr(opt, def) == IF IsSome(opt) THEN opt[1] ELSE def

\* JavaScript null and undefined, where an account id or a ledger is expected.
Null == "null"
Undefined == "undefined"

\* All sequences over S of length at most n.
RECURSIVE SeqsUpTo(_, _)
SeqsUpTo(S, n) ==
    IF n = 0 THEN {<< >>}
    ELSE LET shorter == SeqsUpTo(S, n - 1)
         IN  shorter \cup {Append(s, x) : s \in {t \in shorter : Len(t) = n - 1}, x \in S}

\* A row of the queued-keys table: [AccountId, Keys].
Rows == {<<id, keys>> : id \in Stashes, keys \in KeyLists}
Tables == SeqsUpTo(Rows, MaxRows)

(***************************************************************************)
(* unwrapSessionIds (query.ts 18-28).                                      *)
(***************************************************************************)
\* AccountId.eq
AccountEqAny(a, b) == TRUE
AccountEq(a, b) == a = b

\* Array.prototype.find with the predicate of line 19-20: the first row whose
\* identifier equals the stash, as an option.
FindLastRow(queuedKeys, stash) ==
    LET hits == {i \in 1..Len(queuedKeys) : AccountEq(queuedKeys[i][1], stash)}
    IN  IF hits = {} THEN None
        ELSE Some(queuedKeys[CHOOSE i \in hits : \A j \in hits : j <= i])
FindRow(queuedKeys, stash) ==
    LET hits == {i \in 1..Len(queuedKeys) : AccountEq(queuedKeys[i][1], stash)}
    IN  IF hits = {} THEN None
        ELSE Some(queuedKeys[CHOOSE i \in hits : \A j \in hits : i <= j])

\* A variant whose next session ids fall back to the queued ones when the
\* next-keys value is absent.
unwrapSessionIdsNextFromQueued(stash, queuedKeys, nextKeys) ==
    LET sessionIds == unwrapOr(FindRow(queuedKeys, stash), <<Undefined, << >> >>)[2]
    IN  [ nextSessionIds |-> unwrapOr(nextKeys, sessionIds),
          sessionIds |-> sessionIds ]

unwrapSessionIds(stash, queuedKeys, nextKeys) ==
    [ nextSessionIds |-> unwrapOr(nextKeys, << >>),
      sessionIds |-> unwrapOr(FindRow(queuedKeys, stash), <<Undefined, << >> >>)[2] ]

(***************************************************************************)
(* Values of the multi-read (MultiResult, query.ts 16).                    *)
(***************************************************************************)
\* Nominations, plain or wrapped in a one-element tuple (ITuple<[Nominations]>).
PlainNominations(targets) == [isArray |-> FALSE, targets |-> targets]
TupleOf(x) == [isArray |-> TRUE, elems |-> <<x>>]
NominationsVals == {PlainNominations(<<"v1">>), TupleOf(PlainNominations(<<"v2">>))}

\* ValidatorPrefs, plain or wrapped in a one-element tuple.
PlainPrefs(c) == [isArray |-> FALSE, commission |-> c]
PrefsVals == {PlainPrefs(5), TupleOf(PlainPrefs(7))}

PayeeVals == {"Staked", "Stash"}
ExposureVals == {"X1", "X2"}
LedgerVals == {"L1"}

\* Array.isArray(x) and x[0]
IsArray(x) == x.isArray
First(x) == x.elems[1]

(***************************************************************************)
(* The chain storage read by the derivation.                               *)
(***************************************************************************)
\* The queued-keys tables the chain takes in Spec.
ChainTables ==
    { << >>,
      << <<"s1", <<"k1", "k2">> >> >>,
      << <<"s2", <<"k3">> >>, <<"s1", <<"k3">> >>, <<"s1", <<"k1", "k2">> >> >> }

ChainStates ==
    [ queuedKeys : ChainTables,
      activeEra : Eras,
      bonded : Option(Controllers),
      nominators : Option(NominationsVals),
      payee : PayeeVals,
      validators : PrefsVals,
      nextKeys : Option(KeyLists),
      stakers : ExposureVals,
      erasStakers : [Eras -> ExposureVals],
      ledger : [Controllers -> Option(LedgerVals)] ]

\* api.queryMulti of retrievePrev (query.ts 30-39): the six entries of the
\* stash as the chain holds them now.
ReadMultiPrev(c, stash) ==
    [ bonded |-> c.bonded,
      nominators |-> c.nominators,
      payee |-> c.payee,
      validators |-> c.validators,
      nextKeys |-> c.nextKeys,
      exposure |-> c.stakers ]

\* api.queryMulti of retrieveCurr (query.ts 44-53): the exposure is that of
\* the era the subscription was created for.
ReadMultiCurr(c, stash, era) ==
    [ bonded |-> c.bonded,
      nominators |-> c.nominators,
      payee |-> c.payee,
      validators |-> c.validators,
      nextKeys |-> c.nextKeys,
      exposure |-> c.erasStakers[era] ]

(***************************************************************************)
(* retrieveController (query.ts 58-83).                                    *)
(***************************************************************************)
\* The record of line 82, emitted when no controller is bonded.
MinimalResult(stash) ==
    [accountId |-> stash, nextSessionIds |-> << >>, sessionIds |-> << >>]

\* A variant that keeps the null of an absent nominators entry as the one
\* target.
NominatorTargetsKeepNull(nominatorsOpt) ==
    IF IsSome(nominatorsOpt)
    THEN IF IsArray(nominatorsOpt[1])
         THEN First(nominatorsOpt[1]).targets
         ELSE nominatorsOpt[1].targets
    ELSE <<Null>>

\* nominators of lines 68-72
NominatorTargets(nominatorsOpt) ==
    IF IsSome(nominatorsOpt)
    THEN IF IsArray(nominatorsOpt[1])
         THEN First(nominatorsOpt[1]).targets
         ELSE nominatorsOpt[1].targets
    ELSE << >>

\* validatorPrefs of lines 76-78
UnwrapPrefs(validatorPrefs) ==
    IF IsArray(validatorPrefs) THEN First(validatorPrefs) ELSE validatorPrefs

\* The record of lines 64-80, built when the ledger read delivers.
FullResultNoLedger(stash, controllerId, queuedKeys, multi, stakingLedgerOpt) ==
    LET ids == unwrapSessionIds(stash, queuedKeys, multi.nextKeys)
    IN  [ accountId |-> stash,
          controllerId |-> controllerId,
          exposure |-> multi.exposure,
          nominators |-> NominatorTargets(multi.nominators),
          rewardDestination |-> multi.payee,
          stakingLedger |-> Undefined,
          stashId |-> stash,
          validatorPrefs |-> UnwrapPrefs(multi.validators),
          nextSessionIds |-> ids.nextSessionIds,
          sessionIds |-> ids.sessionIds ]
FullResult(stash, controllerId, queuedKeys, multi, stakingLedgerOpt) ==
    LET ids == unwrapSessionIds(stash, queuedKeys, multi.nextKeys)
    IN  [ accountId |-> stash,
          controllerId |-> controllerId,
          exposure |-> multi.exposure,
          nominators |-> NominatorTargets(multi.nominators),
          rewardDestination |-> multi.payee,
          stakingLedger |-> unwrapOr(stakingLedgerOpt, Undefined),
          stashId |-> stash,
          validatorPrefs |-> UnwrapPrefs(multi.validators),
          nextSessionIds |-> ids.nextSessionIds,
          sessionIds |-> ids.sessionIds ]

\* controllerId of line 59 and the test of line 62
ControllerOf(multi) == unwrapOr(multi.bonded, Null)
HasController(multi) == ControllerOf(multi) # Null

(***************************************************************************)
(* SpecMemo: the memoized entry points query() and queryMulti()            *)
(* (query.ts 102-117 and 132-139).                                         *)
(***************************************************************************)
\* Account identifiers as callers pass them: address strings, and "u8a:1",
\* the Uint8Array holding the public key of "s1".
StringInputs == {"s1", "s2"}
U8aInputs == {"u8a:1"}
AccountInputs == StringInputs \cup U8aInputs
IdLists == {<< >>, <<"s1">>, <<"s1", "s2">>, <<"s2", "s1">>, <<"s1", "s1">>, <<"u8a:1", "s1">>}
ResultVals == {"r1", "r2"}

\* api.registry.createType('AccountId', accountId) (query.ts 104): both forms
\* of an identifier decode to the account.
createType(accountId) == IF accountId = "u8a:1" THEN "s1" ELSE accountId

\* JSON.stringify of one identifier and of a list of them, as token lists: a
\* string is quoted, a Uint8Array is written as an object of its bytes.
StringifyId(accountId) ==
    IF accountId \in U8aInputs THEN <<"{", accountId, "}">> ELSE <<"q", accountId, "q">>
RECURSIVE StringifyIds(_)
StringifyIds(accountIds) ==
    IF accountIds = << >> THEN << >>
    ELSE StringifyId(Head(accountIds))
            \o (IF Len(accountIds) > 1 THEN <<",">> ELSE << >>)
            \o StringifyIds(Tail(accountIds))
\* The cache key of a call: its stringified argument list.
KeyOfId(accountId) == <<"[">> \o StringifyId(accountId) \o <<"]">>
KeyOfIds(accountIds) == <<"[", "[">> \o StringifyIds(accountIds) \o <<"]", "]">>

\* memo(inner): the cache of a memoized function, looked up by key. A call
\* returns the cached observable of its key when there is one; otherwise the
\* inner function runs and the observable it returns is cached. Nothing is
\* evicted. d is the state [cache, obs, queryCalls, ret]; ret is the handle
\* the call returns.
MemoHas(d, which, key) == \E e \in d.cache[which] : e.key = key
MemoGet(d, which, key) ==
    [d EXCEPT !.ret = (CHOOSE e \in d.cache[which] : e.key = key).obs]
MemoPut(d, which, key) ==
    [d EXCEPT !.cache[which] = @ \cup {[key |-> key, obs |-> d.ret]}]

\* A new observable object; its handle is its position in d.obs.
NewObservable(d, descr) ==
    [d EXCEPT !.obs = Append(@, descr), !.ret = Len(d.obs) + 1]

\* The function passed to memo in query() (query.ts 103-115): it builds the
\* combineLatest pipeline over the reads of the stash.
queryInner(d, accountId) ==
    NewObservable(d, [fn |-> "query", accountId |-> accountId,
                      stash |-> createType(accountId)])

\* api.derive.staking.query(accountId)
queryUnmemoized(d, accountId) == queryInner(d, accountId)
query(d, accountId) ==
    IF MemoHas(d, "query", KeyOfId(accountId))
    THEN MemoGet(d, "query", KeyOfId(accountId))
    ELSE MemoPut(queryInner(d, accountId), "query", KeyOfId(accountId))

\* accountIds.map((acc) => api.derive.staking.query(acc)) (query.ts 135):
\* the state after the calls, with the handles collected in order.
RECURSIVE MapQuery(_, _, _)
MapQuery(d, accountIds, handles) ==
    IF accountIds = << >>
    THEN [d |-> d, handles |-> handles]
    ELSE LET after == query([d EXCEPT !.queryCalls = @ + 1], Head(accountIds))
         IN  MapQuery(after, Tail(accountIds), Append(handles, after.ret))

\* The function passed to memo in queryMulti() (query.ts 133-137).
queryMultiInnerNoGuard(d, accountIds) ==
    LET mapped == MapQuery(d, accountIds, << >>)
    IN  NewObservable(mapped.d, [fn |-> "combineLatest", accountIds |-> accountIds,
                                 sources |-> mapped.handles])
queryMultiInner(d, accountIds) ==
    IF Len(accountIds) # 0
    THEN LET mapped == MapQuery(d, accountIds, << >>)
         IN  NewObservable(mapped.d, [fn |-> "combineLatest", accountIds |-> accountIds,
                                      sources |-> mapped.handles])
    ELSE NewObservable(d, [fn |-> "of", accountIds |-> accountIds,
                           sources |-> << >>])

\* api.derive.staking.queryMulti(accountIds)
queryMulti(d, accountIds) ==
    IF MemoHas(d, "queryMulti", KeyOfIds(accountIds))
    THEN MemoGet(d, "queryMulti", KeyOfIds(accountIds))
    ELSE MemoPut(queryMultiInner(d, accountIds), "queryMulti", KeyOfIds(accountIds))

NoMultiSub == [obs |-> 0, latest |-> << >>, reads |-> 0, done |-> FALSE]

InitMemo ==
    /\ derive = [cache |-> [query |-> {}, queryMulti |-> {}], obs |-> << >>,
                 queryCalls |-> 0, ret |-> 0]
    /\ calls = {}
    /\ nCalls = 0
    /\ repeated = {}
    /\ mSub = NoMultiSub
    /\ mOut = None
    /\ nMOut = 0
    /\ nEmits = 0
    /\ mSrc = << >>
    /\ mLists = << >>

\* The application calls api.derive.staking.query(accountId).
CallQuery ==
    /\ nCalls < MaxCalls
    /\ \E accountId \in AccountInputs :
          LET after == query(derive, accountId)
              sig == [fn |-> "query", accountId |-> accountId]
          IN  /\ derive' = after
              /\ calls' = calls \cup {[sig |-> sig, ret |-> after.ret, made |-> 0]}
              /\ repeated' = IF \E c \in calls : c.sig = sig
                             THEN repeated \cup {sig} ELSE repeated
    /\ nCalls' = nCalls + 1
    /\ UNCHANGED <<sessionVars, pureVars, devVars, queryVars, mSub, mOut, nMOut, nEmits,
                   mSrc, mLists>>

\* The application calls api.derive.staking.queryMulti(accountIds).
CallQueryMulti ==
    /\ nCalls < MaxCalls
    /\ \E accountIds \in IdLists :
          LET after == queryMulti(derive, accountIds)
              sig == [fn |-> "queryMulti", accountIds |-> accountIds]
          IN  /\ derive' = after
              /\ calls' = calls \cup {[sig |-> sig, ret |-> after.ret,
                                       made |-> after.queryCalls - derive.queryCalls]}
              /\ repeated' = IF \E c \in calls : c.sig = sig
                             THEN repeated \cup {sig} ELSE repeated
    /\ nCalls' = nCalls + 1
    /\ UNCHANGED <<sessionVars, pureVars, devVars, queryVars, mSub, mOut, nMOut, nEmits,
                   mSrc, mLists>>

\* The handles of the observables queryMulti() has created.
MultiHandles ==
    {h \in 1..Len(derive.obs) : derive.obs[h].fn \in {"combineLatest", "of"}}

\* subscribe() on a queryMulti observable. of([]) delivers the empty list at
\* once and completes; combineLatest subscribes to each of its sources, and
\* completes at once without a value when it has none.
SubscribeMulti ==
    /\ mSub.obs = 0
    /\ \E h \in MultiHandles :
          LET o == derive.obs[h]
          IN  IF o.fn = "of"
              THEN /\ mSub' = [obs |-> h, latest |-> << >>, reads |-> 0, done |-> TRUE]
                   /\ mOut' = Some(<< >>)
                   /\ nMOut' = nMOut + 1
              ELSE /\ mSub' = [obs |-> h,
                               latest |-> [i \in 1..Len(o.sources) |-> None],
                               reads |-> Len(o.sources),
                               done |-> Len(o.sources) = 0]
                   /\ UNCHANGED <<mOut, nMOut>>
    /\ mSrc' = [src \in Range(derive.obs[mSub'.obs].sources) |-> None]
    /\ mLists' = << >>
    /\ UNCHANGED <<sessionVars, pureVars, devVars, queryVars, derive, calls, nCalls, repeated, nEmits>>

\* The subscriber of the queryMulti observable leaves.
UnsubscribeMulti ==
    /\ mSub.obs # 0
    /\ mSub' = NoMultiSub
    /\ mOut' = None
    /\ nMOut' = 0
    /\ mSrc' = << >>
    /\ mLists' = << >>
    /\ UNCHANGED <<sessionVars, pureVars, devVars, queryVars, derive, calls, nCalls, repeated, nEmits>>

\* The values of a list of optional values that all hold one.
Values(latest) == [i \in 1..Len(latest) |-> latest[i][1]]

\* A combineLatest that emits as soon as a source delivers, with the values
\* it holds so far.
RECURSIVE DeliveriesEager(_, _, _, _, _)
DeliveriesEager(sources, latest, h, v, p) ==
    IF p > Len(sources)
    THEN [latest |-> latest, emitted |-> 0, lists |-> << >>]
    ELSE IF sources[p] # h
         THEN DeliveriesEager(sources, latest, h, v, p + 1)
         ELSE LET now == [latest EXCEPT ![p] = Some(v)]
                  rest == DeliveriesEager(sources, now, h, v, p + 1)
              IN  [latest |-> rest.latest,
                   emitted |-> rest.emitted + 1,
                   lists |-> <<[list |-> Values(SelectSeq(now, IsSome)),
                                at |-> p]>> \o rest.lists]

\* combineLatest after source h has delivered v to the positions up to p that
\* subscribe to it: the latest values, and the lists emitted on the way, each
\* with the position whose update emitted it.
RECURSIVE Deliveries(_, _, _, _, _)
Deliveries(sources, latest, h, v, p) ==
    IF p > Len(sources)
    THEN [latest |-> latest, emitted |-> 0, lists |-> << >>]
    ELSE IF sources[p] # h
         THEN Deliveries(sources, latest, h, v, p + 1)
         ELSE LET now == [latest EXCEPT ![p] = Some(v)]
                  rest == Deliveries(sources, now, h, v, p + 1)
                  full == \A i \in 1..Len(now) : IsSome(now[i])
              IN  [latest |-> rest.latest,
                   emitted |-> rest.emitted + (IF full THEN 1 ELSE 0),
                   lists |-> (IF full
                              THEN <<[list |-> Values(now), at |-> p]>>
                              ELSE << >>) \o rest.lists]

\* A per-account query observable emits a result; combineLatest (query.ts
\* 135) hands it to every position subscribed to that observable and emits
\* the list of latest results once every position has one.
QueryEmits ==
    /\ mSub.obs # 0 /\ ~mSub.done
    /\ nEmits < MaxEmits
    /\ \E h \in {derive.obs[mSub.obs].sources[i] : i \in 1..Len(mSub.latest)} :
       \E v \in ResultVals :
          LET got == Deliveries(derive.obs[mSub.obs].sources, mSub.latest, h, v, 1)
          IN  /\ mSub' = [mSub EXCEPT !.latest = got.latest]
              /\ mSrc' = [mSrc EXCEPT ![h] = Some(v)]
              /\ mLists' = got.lists
              /\ IF got.emitted > 0
                 THEN /\ mOut' = Some(got.lists[Len(got.lists)].list)
                      /\ nMOut' = nMOut + got.emitted
                 ELSE UNCHANGED <<mOut, nMOut>>
    /\ nEmits' = nEmits + 1
    /\ UNCHANGED <<sessionVars, pureVars, devVars, queryVars, derive, calls, nCalls, repeated>>

NextMemo ==
    \/ CallQuery
    \/ CallQueryMulti
    \/ SubscribeMulti
    \/ UnsubscribeMulti
    \/ QueryEmits

(***************************************************************************)
(* Spec: one subscription to query(stash) (query.ts 102-117).              *)
(***************************************************************************)
NoEra == -1
IdleSub == [active |-> FALSE, pending |-> FALSE]
IdleMulti == [active |-> FALSE, pending |-> FALSE, era |-> NoEra]
IdleLedger == [active |-> FALSE, pending |-> FALSE, ctrl |-> Null,
               qk |-> << >>, multi |-> None]
NoSrc == [qk |-> None, multi |-> None, ledgerOf |-> Null, ledger |-> None]

InitChain ==
    { c \in ChainStates :
        /\ c.queuedKeys = << <<"s1", <<"k1", "k2">> >> >>
        /\ c.bonded \in {None, Some("c1")}
        /\ c.activeEra = 0
        /\ c.nominators = None
        /\ c.payee = "Staked"
        /\ c.validators = PlainPrefs(5)
        /\ c.nextKeys = None
        /\ c.stakers = "X1"
        /\ c.erasStakers = [e \in Eras |-> "X1"]
        /\ c.ledger = [k \in Controllers |-> Some("L1")] }

InitQuery ==
    /\ stashId = "s1"
    /\ hasErasStakers \in BOOLEAN
    /\ chain \in InitChain
    /\ changes = 0
    /\ subQK = IdleSub
    /\ subIdx = IdleSub
    /\ subMulti = IdleMulti
    /\ subLedger = IdleLedger
    /\ clQK = None
    /\ clMulti = None
    /\ status = "idle"
    /\ lastOut = None
    /\ nOut = 0
    /\ lastOutSrc = NoSrc
    /\ lastErr = None

InitSession ==
    /\ uIn = [stashId |-> "s1", queuedKeys |-> << >>, nextKeys |-> None]
    /\ uDone = FALSE
    /\ uOut = [nextSessionIds |-> << >>, sessionIds |-> << >>]

\* The Developer settings page is not open.
DevUnused ==
    /\ dev = << >>
    /\ store = << >>
    /\ devOut = << >>

\* No pure function is being applied.
PureUnused ==
    /\ pIn = << >>
    /\ pDone = FALSE
    /\ pOut = << >>

\* The subscriber's next(): a result is delivered.
Emit(result, src) ==
    /\ lastOut' = Some(result)
    /\ nOut' = nOut + 1
    /\ lastOutSrc' = src

\* A projection that leaves the previous inner observable subscribed when the
\* new tuple has no controller (mergeMap in place of switchMap).
OuterNextKeepInner(qk, multi) ==
    IF HasController(multi)
    THEN /\ subLedger' = [active |-> TRUE, pending |-> TRUE,
                          ctrl |-> ControllerOf(multi), qk |-> qk,
                          multi |-> Some(multi)]
         /\ UNCHANGED <<lastOut, nOut, lastOutSrc>>
    ELSE /\ subLedger' = subLedger
         /\ Emit(MinimalResult(stashId),
                 [qk |-> Some(qk), multi |-> Some(multi),
                  ledgerOf |-> Null, ledger |-> None])

\* A projection that emits a result before the ledger read has answered
\* (startWith on the ledger read).
OuterNextEager(qk, multi) ==
    IF HasController(multi)
    THEN /\ subLedger' = [active |-> TRUE, pending |-> TRUE,
                          ctrl |-> ControllerOf(multi), qk |-> qk,
                          multi |-> Some(multi)]
         /\ Emit(FullResult(stashId, ControllerOf(multi), qk, multi, None),
                 [qk |-> Some(qk), multi |-> Some(multi),
                  ledgerOf |-> Null, ledger |-> None])
    ELSE /\ subLedger' = IdleLedger
         /\ Emit(MinimalResult(stashId),
                 [qk |-> Some(qk), multi |-> Some(multi),
                  ledgerOf |-> Null, ledger |-> None])

\* A projection that keeps a ledger read that is already open instead of
\* issuing one for the new tuple.
OuterNextReuseRead(qk, multi) ==
    IF HasController(multi)
    THEN /\ subLedger' = IF subLedger.active
                         THEN subLedger
                         ELSE [active |-> TRUE, pending |-> TRUE,
                               ctrl |-> ControllerOf(multi), qk |-> qk,
                               multi |-> Some(multi)]
         /\ UNCHANGED <<lastOut, nOut, lastOutSrc>>
    ELSE /\ subLedger' = IdleLedger
         /\ Emit(MinimalResult(stashId),
                 [qk |-> Some(qk), multi |-> Some(multi),
                  ledgerOf |-> Null, ledger |-> None])

\* A projection that merges instead of switching: a ledger read that has not
\* answered yet stays subscribed when a newer tuple arrives.
OuterNextMerge(qk, multi) ==
    IF HasController(multi)
    THEN /\ subLedger' = IF subLedger.active /\ subLedger.pending
                         THEN subLedger
                         ELSE [active |-> TRUE, pending |-> TRUE,
                               ctrl |-> ControllerOf(multi), qk |-> qk,
                               multi |-> Some(multi)]
         /\ UNCHANGED <<lastOut, nOut, lastOutSrc>>
    ELSE /\ subLedger' = IdleLedger
         /\ Emit(MinimalResult(stashId),
                 [qk |-> Some(qk), multi |-> Some(multi),
                  ledgerOf |-> Null, ledger |-> None])

\* The projection of the outer switchMap (query.ts 112-114) on a combined
\* value [queuedKeys, multi]: the previous inner observable is unsubscribed
\* and retrieveController's observable is subscribed. With a controller that
\* is the ledger read, which has delivered nothing yet; without one it is
\* of(minimal), which emits at once and completes.
OuterNext(qk, multi) ==
    IF HasController(multi)
    THEN /\ subLedger' = [active |-> TRUE, pending |-> TRUE,
                          ctrl |-> ControllerOf(multi), qk |-> qk,
                          multi |-> Some(multi)]
         /\ UNCHANGED <<lastOut, nOut, lastOutSrc>>
    ELSE /\ subLedger' = IdleLedger
         /\ Emit(MinimalResult(stashId),
                 [qk |-> Some(qk), multi |-> Some(multi),
                  ledgerOf |-> Null, ledger |-> None])

\* subscribe(): combineLatest subscribes to queuedKeys() and to retrieveCurr
\* or retrievePrev (query.ts 106-111); retrieveCurr first subscribes to
\* session.indexes() (line 42).
Subscribe ==
    /\ status = "idle"
    /\ status' = "active"
    /\ subQK' = [active |-> TRUE, pending |-> TRUE]
    /\ IF hasErasStakers
       THEN /\ subIdx' = [active |-> TRUE, pending |-> TRUE]
            /\ subMulti' = subMulti
       ELSE /\ subIdx' = subIdx
            /\ subMulti' = [active |-> TRUE, pending |-> TRUE, era |-> NoEra]
    /\ UNCHANGED <<sessionVars, pureVars, devVars, memoVars, stashId, hasErasStakers, chain, changes, subLedger, clQK,
                   clMulti, lastOut, nOut, lastOutSrc, lastErr>>

\* The queued-keys read delivers its value (first value or change).
DeliverQueuedKeys ==
    /\ subQK.active /\ subQK.pending
    /\ subQK' = [subQK EXCEPT !.pending = FALSE]
    /\ clQK' = Some(chain.queuedKeys)
    /\ IF IsSome(clMulti)
       THEN OuterNext(chain.queuedKeys, clMulti[1])
       ELSE UNCHANGED <<subLedger, lastOut, nOut, lastOutSrc>>
    /\ UNCHANGED <<sessionVars, pureVars, devVars, memoVars, stashId, hasErasStakers, chain, changes, subIdx, subMulti,
                   clMulti, status, lastErr>>

\* A retrieveCurr that keeps the multi-read of the first era (exhaustMap in
\* place of switchMap).
DeliverIndexesKeepFirst ==
    /\ subIdx.active /\ subIdx.pending
    /\ subIdx' = [subIdx EXCEPT !.pending = FALSE]
    /\ subMulti' = IF subMulti.active
                   THEN subMulti
                   ELSE [active |-> TRUE, pending |-> TRUE, era |-> chain.activeEra]
    /\ UNCHANGED <<sessionVars, pureVars, devVars, memoVars, stashId, hasErasStakers, chain, changes, subQK, subLedger,
                   clQK, clMulti, status, lastOut, nOut, lastOutSrc, lastErr>>

\* session.indexes() delivers: the switchMap of retrieveCurr (query.ts 43-54)
\* drops the multi-read of the previous era and subscribes one for activeEra.
DeliverIndexes ==
    /\ subIdx.active /\ subIdx.pending
    /\ subIdx' = [subIdx EXCEPT !.pending = FALSE]
    /\ subMulti' = [active |-> TRUE, pending |-> TRUE, era |-> chain.activeEra]
    /\ UNCHANGED <<sessionVars, pureVars, devVars, memoVars, stashId, hasErasStakers, chain, changes, subQK, subLedger,
                   clQK, clMulti, status, lastOut, nOut, lastOutSrc, lastErr>>

\* The value api.queryMulti delivers for the subscription.
ReadMulti ==
    IF subMulti.era = NoEra
    THEN ReadMultiPrev(chain, stashId)
    ELSE ReadMultiCurr(chain, stashId, subMulti.era)

\* The multi-read delivers its tuple.
DeliverMulti ==
    /\ subMulti.active /\ subMulti.pending
    /\ subMulti' = [subMulti EXCEPT !.pending = FALSE]
    /\ clMulti' = Some(ReadMulti)
    /\ IF IsSome(clQK)
       THEN OuterNext(clQK[1], ReadMulti)
       ELSE UNCHANGED <<subLedger, lastOut, nOut, lastOutSrc>>
    /\ UNCHANGED <<sessionVars, pureVars, devVars, memoVars, stashId, hasErasStakers, chain, changes, subQK, subIdx,
                   clQK, status, lastErr>>

\* The ledger read of the current inner observable delivers: the map of
\* query.ts 64-80 builds the result from the tuple the inner was created for.
DeliverLedger ==
    /\ subLedger.active /\ subLedger.pending
    /\ subLedger' = [subLedger EXCEPT !.pending = FALSE]
    /\ Emit(FullResult(stashId, subLedger.ctrl, subLedger.qk,
                       subLedger.multi[1], chain.ledger[subLedger.ctrl]),
            [qk |-> clQK, multi |-> clMulti, ledgerOf |-> subLedger.ctrl,
             ledger |-> chain.ledger[subLedger.ctrl]])
    /\ UNCHANGED <<sessionVars, pureVars, devVars, memoVars, stashId, hasErasStakers, chain, changes, subQK, subIdx,
                   subMulti, clQK, clMulti, status, lastErr>>

\* A change notification is queued for a subscription that is still open.
Notify(sub) == IF sub.active THEN [sub EXCEPT !.pending = TRUE] ELSE sub

\* A teardown that forgets the inner ledger subscription.
TearDownOuterOnly ==
    /\ subQK' = IdleSub
    /\ subIdx' = IdleSub
    /\ subMulti' = IdleMulti
    /\ subLedger' = subLedger

\* Unsubscribing the composite: combineLatest unsubscribes both sources,
\* each switchMap its outer source and its current inner observable.
TearDown ==
    /\ subQK' = IdleSub
    /\ subIdx' = IdleSub
    /\ subMulti' = IdleMulti
    /\ subLedger' = IdleLedger

\* The subscriber unsubscribes from the composite observable.
Unsubscribe ==
    /\ status = "active"
    /\ status' = "unsubscribed"
    /\ TearDown
    /\ UNCHANGED <<sessionVars, pureVars, devVars, memoVars, stashId, hasErasStakers, chain, changes, clQK, clMulti,
                   lastOut, nOut, lastOutSrc, lastErr>>

\* A pipeline that swallows the failure and keeps its reads open (retry).
RetryOnError ==
    /\ status' = status
    /\ subQK' = Notify(subQK)
    /\ subIdx' = Notify(subIdx)
    /\ subMulti' = Notify(subMulti)
    /\ subLedger' = Notify(subLedger)
    /\ UNCHANGED <<lastOut, nOut, lastOutSrc>>

\* What the pipeline of query.ts 106-115 does with a failed read: it holds no
\* catchError or retry, so combineLatest and switchMap pass the error to the
\* subscriber and every subscription is dropped.
PropagateError ==
    /\ status' = "errored"
    /\ TearDown
    /\ UNCHANGED <<lastOut, nOut, lastOutSrc>>

ReadActive(src) ==
    CASE src = "queuedKeys" -> subQK.active
      [] src = "indexes" -> subIdx.active
      [] src = "multi" -> subMulti.active
      [] src = "ledger" -> subLedger.active

\* A subscribed read fails.
FailRead ==
    \E src \in {"queuedKeys", "indexes", "multi", "ledger"} :
        /\ ReadActive(src)
        /\ lastErr' = Some(src)
        /\ PropagateError
        /\ UNCHANGED <<sessionVars, pureVars, devVars, memoVars, stashId, hasErasStakers, chain, changes, clQK, clMulti>>

CanChange == status # "idle" /\ changes < MaxChanges

\* session.queuedKeys changes on chain.
ChangeQueuedKeys ==
    /\ CanChange
    /\ \E t \in ChainTables \ {chain.queuedKeys} :
           chain' = [chain EXCEPT !.queuedKeys = t]
    /\ changes' = changes + 1
    /\ subQK' = Notify(subQK)
    /\ UNCHANGED <<sessionVars, pureVars, devVars, memoVars, stashId, hasErasStakers, subIdx, subMulti, subLedger, clQK,
                   clMulti, status, lastOut, nOut, lastOutSrc, lastErr>>

\* The active era moves on (only chains with erasStakers have one).
ChangeActiveEra ==
    /\ CanChange
    /\ hasErasStakers
    /\ \E e \in Eras \ {chain.activeEra} :
           chain' = [chain EXCEPT !.activeEra = e]
    /\ changes' = changes + 1
    /\ subIdx' = Notify(subIdx)
    /\ UNCHANGED <<sessionVars, pureVars, devVars, memoVars, stashId, hasErasStakers, subQK, subMulti, subLedger, clQK,
                   clMulti, status, lastOut, nOut, lastOutSrc, lastErr>>

\* One of the stash's entries bonded, nominators, payee, validators or
\* nextKeys changes on chain.
ChangeStashEntry ==
    /\ CanChange
    /\ \/ \E v \in Option(Controllers) \ {chain.bonded} :
              chain' = [chain EXCEPT !.bonded = v]
       \/ \E v \in Option(NominationsVals) \ {chain.nominators} :
              chain' = [chain EXCEPT !.nominators = v]
       \/ \E v \in PayeeVals \ {chain.payee} :
              chain' = [chain EXCEPT !.payee = v]
       \/ \E v \in PrefsVals \ {chain.validators} :
              chain' = [chain EXCEPT !.validators = v]
       \/ \E v \in Option(KeyLists) \ {chain.nextKeys} :
              chain' = [chain EXCEPT !.nextKeys = v]
    /\ changes' = changes + 1
    /\ subMulti' = Notify(subMulti)
    /\ UNCHANGED <<sessionVars, pureVars, devVars, memoVars, stashId, hasErasStakers, subQK, subIdx, subLedger, clQK,
                   clMulti, status, lastOut, nOut, lastOutSrc, lastErr>>

\* The stash's exposure changes: staking.stakers, or staking.erasStakers of
\* one era, which notifies the multi-read only if it reads that era.
ChangeExposure ==
    /\ CanChange
    /\ IF hasErasStakers
       THEN \E e \in Eras : \E v \in ExposureVals \ {chain.erasStakers[e]} :
               /\ chain' = [chain EXCEPT !.erasStakers[e] = v]
               /\ subMulti' = IF subMulti.era = e THEN Notify(subMulti) ELSE subMulti
       ELSE \E v \in ExposureVals \ {chain.stakers} :
               /\ chain' = [chain EXCEPT !.stakers = v]
               /\ subMulti' = Notify(subMulti)
    /\ changes' = changes + 1
    /\ UNCHANGED <<sessionVars, pureVars, devVars, memoVars, stashId, hasErasStakers, subQK, subIdx, subLedger, clQK,
                   clMulti, status, lastOut, nOut, lastOutSrc, lastErr>>

\* The ledger of a controller changes on chain.
ChangeLedger ==
    /\ CanChange
    /\ \E k \in Controllers : \E v \in Option(LedgerVals) \ {chain.ledger[k]} :
           /\ chain' = [chain EXCEPT !.ledger[k] = v]
           /\ subLedger' = IF subLedger.ctrl = k THEN Notify(subLedger) ELSE subLedger
    /\ changes' = changes + 1
    /\ UNCHANGED <<sessionVars, pureVars, devVars, memoVars, stashId, hasErasStakers, subQK, subIdx, subMulti, clQK,
                   clMulti, status, lastOut, nOut, lastOutSrc, lastErr>>

Next ==
    \/ Subscribe
    \/ DeliverQueuedKeys
    \/ DeliverIndexes
    \/ DeliverMulti
    \/ DeliverLedger
    \/ Unsubscribe
    \/ FailRead
    \/ ChangeQueuedKeys
    \/ ChangeActiveEra
    \/ ChangeStashEntry
    \/ ChangeExposure
    \/ ChangeLedger

Init == InitQuery /\ InitSession /\ InitMemo /\ PureUnused /\ DevUnused

Spec == Init /\ [][Next]_vars

(***************************************************************************)
(* SpecSession: unwrapSessionIds applied to every stash, table of at most  *)
(* MaxRows rows and optional next-keys value.                              *)
(***************************************************************************)
SessionInputs ==
    [stashId : Stashes, queuedKeys : Tables, nextKeys : Option(KeyLists)]

\* The subscription of Spec stays unused here.
QueryUnused ==
    /\ InitQuery
    /\ hasErasStakers
    /\ chain = CHOOSE c \in InitChain : c.bonded = None

InitSessionInputs ==
    /\ uIn \in SessionInputs
    /\ uDone = FALSE
    /\ uOut = [nextSessionIds |-> << >>, sessionIds |-> << >>]
    /\ QueryUnused
    /\ InitMemo
    /\ PureUnused
    /\ DevUnused

\* The call unwrapSessionIds(stashId, queuedKeys, nextKeys).
ApplyUnwrapSessionIds ==
    /\ ~uDone
    /\ uOut' = unwrapSessionIds(uIn.stashId, uIn.queuedKeys, uIn.nextKeys)
    /\ uDone' = TRUE
    /\ UNCHANGED <<uIn, queryVars, memoVars, pureVars, devVars>>

NextSession == ApplyUnwrapSessionIds

SpecSession == InitSessionInputs /\ [][NextSession]_vars

InitMemoOnly == InitMemo /\ InitSession /\ QueryUnused /\ PureUnused /\ DevUnused

SpecMemo == InitMemoOnly /\ [][NextMemo]_vars

\* Whether row i of table t is the first row whose identifier is the stash.
IsFirstMatch(t, stash, i) ==
    /\ i \in 1..Len(t)
    /\ t[i][1] = stash
    /\ \A j \in 1..(i - 1) : t[j][1] # stash

\* C3: when the queued-keys table holds a row whose identifier equals the
\* stash, the resolved sessionIds are the keys of the first such row.
C3_FirstMatchingRow ==
    uDone =>
        \A i \in 1..Len(uIn.queuedKeys) :
            IsFirstMatch(uIn.queuedKeys, uIn.stashId, i)
                => uOut.sessionIds = uIn.queuedKeys[i][2]

\* Reached: a table with two rows of the stash holding different keys has
\* been resolved.
C3_Witness ==
    /\ uDone
    /\ Len(uIn.queuedKeys) = 2
    /\ uIn.queuedKeys[1][1] = uIn.stashId
    /\ uIn.queuedKeys[2][1] = uIn.stashId
    /\ uIn.queuedKeys[1][2] # uIn.queuedKeys[2][2]
    /\ uOut.sessionIds = uIn.queuedKeys[1][2]

\* C4: when no row of the queued-keys table (the empty table included) has
\* the stash as its identifier, the resolved sessionIds are the empty list.
C4_NoMatchIsEmpty ==
    (uDone /\ \A i \in 1..Len(uIn.queuedKeys) : uIn.queuedKeys[i][1] # uIn.stashId)
        => uOut.sessionIds = << >>

\* Reached: a non-empty table without a row of the stash has been resolved.
C4_Witness ==
    /\ uDone
    /\ Len(uIn.queuedKeys) >= 1
    /\ \A i \in 1..Len(uIn.queuedKeys) : uIn.queuedKeys[i][1] # uIn.stashId
    /\ uOut.sessionIds = << >>

(***************************************************************************)
(* Properties of one subscription to query(stash), checked under Spec.     *)
(***************************************************************************)
AnyReadOpen ==
    subQK.active \/ subIdx.active \/ subMulti.active \/ subLedger.active

\* The emitted result and the multi-read tuple it was emitted under.
OutResult == lastOut[1]
OutMulti == lastOutSrc.multi[1]

\* C1: a result emitted while the bonded-controller read is an empty optional
\* is exactly {accountId: stash, nextSessionIds: [], sessionIds: []}, with no
\* other field, whatever the other reads returned.
C1_NoControllerMinimal ==
    (IsSome(lastOut) /\ IsSome(lastOutSrc.multi) /\ OutMulti.bonded = None)
        => /\ DOMAIN OutResult = {"accountId", "nextSessionIds", "sessionIds"}
           /\ OutResult.accountId = stashId
           /\ OutResult.nextSessionIds = << >>
           /\ OutResult.sessionIds = << >>

\* Reached: the minimal record was emitted although the stash has queued
\* session keys, next keys and nominators on chain.
C1_Witness ==
    /\ IsSome(lastOut)
    /\ IsSome(lastOutSrc.multi)
    /\ OutMulti.bonded = None
    /\ IsSome(OutMulti.nextKeys)
    /\ \E i \in 1..Len(lastOutSrc.qk[1]) : lastOutSrc.qk[1][i][1] = stashId
    /\ nOut >= 2

\* C2: a result emitted while the bonded-controller read holds a controller
\* carries that controller, the stakingLedger delivered by the ledger read of
\* that same controller, and the exposure, nominators, rewardDestination and
\* validatorPrefs of the tuple that holds the controller.
C2_ControllerResult ==
    (IsSome(lastOut) /\ IsSome(lastOutSrc.multi) /\ IsSome(OutMulti.bonded))
        => /\ {"controllerId", "stakingLedger", "exposure", "nominators",
               "rewardDestination", "validatorPrefs"} \subseteq DOMAIN OutResult
           /\ OutResult.controllerId = OutMulti.bonded[1]
           /\ lastOutSrc.ledgerOf = OutMulti.bonded[1]
           /\ OutResult.stakingLedger =
                  (IF lastOutSrc.ledger = None THEN Undefined ELSE lastOutSrc.ledger[1])
           /\ OutResult.exposure = OutMulti.exposure
           /\ OutResult.rewardDestination = OutMulti.payee
           /\ OutResult.nominators =
                  (CASE OutMulti.nominators = None -> << >>
                     [] OutMulti.nominators \in {Some(TupleOf(PlainNominations(t))) : t \in {<<"v1">>, <<"v2">>}}
                          -> OutMulti.nominators[1].elems[1].targets
                     [] OTHER -> OutMulti.nominators[1].targets)
           /\ OutResult.validatorPrefs \in {PlainPrefs(5), PlainPrefs(7)}
           /\ OutMulti.validators \in {OutResult.validatorPrefs, TupleOf(OutResult.validatorPrefs)}

\* Reached: a result with a controller, a ledger, tuple-wrapped nominators
\* and tuple-wrapped validator preferences has been emitted.
C2_Witness ==
    /\ IsSome(lastOut)
    /\ "controllerId" \in DOMAIN OutResult
    /\ OutResult.controllerId \in Controllers
    /\ OutResult.stakingLedger = "L1"
    /\ OutResult.nominators = <<"v2">>
    /\ OutMulti.validators = TupleOf(PlainPrefs(7))

\* C7: no result is emitted before the queued-keys read and the multi-read
\* have both delivered a value and, when the tuple holds a controller, before
\* the ledger read of that controller has delivered one.
C7_JoinBeforeEmit ==
    IsSome(lastOut)
        => /\ IsSome(clQK) /\ IsSome(clMulti)
           /\ IsSome(lastOutSrc.qk) /\ IsSome(lastOutSrc.multi)
           /\ IsSome(OutMulti.bonded) => lastOutSrc.ledgerOf = OutMulti.bonded[1]

\* Reached: both outer reads have delivered for a stash with a controller and
\* nothing has been emitted yet, the ledger read being still outstanding.
C7_Witness ==
    /\ status = "active"
    /\ IsSome(clQK) /\ IsSome(clMulti)
    /\ IsSome(clMulti[1].bonded)
    /\ subLedger.active /\ subLedger.pending
    /\ nOut = 0

\* C9: once the subscriber has unsubscribed no constituent subscription is
\* left open and no further result reaches the subscriber.
C9_Cancellation ==
    /\ [](status = "unsubscribed" => ~AnyReadOpen)
    /\ [][status = "unsubscribed" => (nOut' = nOut /\ lastOut' = lastOut)]_vars

\* Reached: the subscriber left after a result with a ledger, and the ledger
\* of that controller has changed on chain since.
C9_Witness ==
    /\ status = "unsubscribed"
    /\ IsSome(lastOut)
    /\ lastOutSrc.ledgerOf # Null
    /\ chain.ledger[lastOutSrc.ledgerOf] # lastOutSrc.ledger

\* C10: a failure of a subscribed read reaches the subscriber's error
\* channel; no read stays open or is issued again, and no result (default or
\* otherwise) follows the error.
C10_ErrorPropagates ==
    /\ [](IsSome(lastErr) => (status = "errored" /\ ~AnyReadOpen))
    /\ [][IsSome(lastErr) => (nOut' = nOut /\ lastOut' = lastOut /\ status' = "errored")]_vars

\* Reached: the ledger read failed after a first result, and the chain has
\* changed under the errored stream.
C10_Witness ==
    /\ status = "errored"
    /\ lastErr = Some("ledger")
    /\ nOut >= 1
    /\ changes >= 1

(***************************************************************************)
(* FairSpec: the chain API delivers every queued notification of a         *)
(* subscription that stays open.                                           *)
(***************************************************************************)
FairSpec ==
    /\ Spec
    /\ WF_vars(DeliverQueuedKeys)
    /\ WF_vars(DeliverIndexes)
    /\ WF_vars(DeliverMulti)
    /\ WF_vars(DeliverLedger)

\* A change notification (or first value) awaits delivery.
AnyPending ==
    \/ subQK.active /\ subQK.pending
    \/ subIdx.active /\ subIdx.pending
    \/ subMulti.active /\ subMulti.pending
    \/ subLedger.active /\ subLedger.pending

\* The result query(stash) derives from the chain as it is now.
ExpectedResult ==
    LET multi == IF hasErasStakers
                 THEN ReadMultiCurr(chain, stashId, chain.activeEra)
                 ELSE ReadMultiPrev(chain, stashId)
    IN  IF multi.bonded = None
        THEN MinimalResult(stashId)
        ELSE FullResult(stashId, multi.bonded[1], chain.queuedKeys, multi,
                        chain.ledger[multi.bonded[1]])

\* The first values give one result and each chain change at most one more.
MaxOut == MaxChanges + 1

\* C8: after a first result, a change notification of a constituent read
\* leads to a newly emitted result, and the results catch up with the chain:
\* while the subscription lasts, a result reflecting the changed values
\* follows.
C8_Recomputation ==
    /\ [](nOut <= MaxOut)
    /\ \A n \in 1..MaxOut :
          (status = "active" /\ nOut = n /\ AnyPending)
              ~> (nOut > n \/ status # "active")
    /\ (status = "active")
          ~> (status # "active" \/ (~AnyPending /\ lastOut = Some(ExpectedResult)))

\* Reached: a result was emitted, two chain changes were notified and
\* the results have caught up with them.
C8_Witness ==
    /\ status = "active"
    /\ changes >= 2
    /\ nOut >= 3
    /\ ~AnyPending
    /\ lastOut = Some(ExpectedResult)

(***************************************************************************)
(* Properties of the memoized entry points, checked under SpecMemo.        *)
(***************************************************************************)
QueryCalls == {c \in calls : c.sig.fn = "query"}

\* C5: calls of query() with the identical account identifier return the
\* same observable handle and the inner function has built at most one
\* pipeline of reads for it; calls with distinct identifiers return distinct
\* handles.
C5_Memoization ==
    /\ \A c1 \in QueryCalls : \A c2 \in QueryCalls :
          (c1.sig.accountId = c2.sig.accountId) <=> (c1.ret = c2.ret)
    /\ \A a \in AccountInputs :
          Cardinality({h \in 1..Len(derive.obs) :
                          /\ derive.obs[h].fn = "query"
                          /\ derive.obs[h].accountId = a}) <= 1

\* Reached: query() has been called twice with one identifier and once with
\* another form of the same account.
C5_Witness ==
    /\ [fn |-> "query", accountId |-> "s1"] \in repeated
    /\ \E c \in QueryCalls : c.sig.accountId = "u8a:1"

\* C6: queryMulti([]) makes no api.derive.staking.query call and has no
\* source to read from, and its observable delivers the empty list, once, in
\* the step that subscribes to it.
C6_EmptyBatch ==
    /\ \A c \in calls :
          (c.sig.fn = "queryMulti" /\ c.sig.accountIds = << >>)
              => (c.made = 0 /\ derive.obs[c.ret].sources = << >>)
    /\ (mSub.obs # 0 /\ derive.obs[mSub.obs].accountIds = << >>)
          => (mOut = Some(<< >>) /\ nMOut = 1 /\ mSub.reads = 0 /\ mSub.done)

\* Reached: the observable of queryMulti([]) is subscribed while other calls
\* have created per-account queries.
C6_Witness ==
    /\ mSub.obs # 0
    /\ derive.obs[mSub.obs].accountIds = << >>
    /\ mOut = Some(<< >>)
    /\ derive.queryCalls > 0

(***************************************************************************)
(* estimateController: the controller an account is estimated to act for.  *)
(* SpecController follows one subscription to it while the two storage      *)
(* entries it reads change on chain.                                        *)
(***************************************************************************)
\* Codec.isEmpty of an optional storage value.
isEmpty(opt) == opt = None

\* A variant that takes the account for the controller whenever no
\* controller is bonded, whatever the ledger holds.
resolveControllerIgnoreLedger(stash, result) ==
    LET controller == result[1]
    IN  IF ~isEmpty(controller) THEN controller ELSE stash

resolveController(stash, result) ==
    LET controller == result[1]
        ledger == result[2]
    IN  IF ~isEmpty(controller) THEN controller
        ELSE IF isEmpty(controller) /\ ~isEmpty(ledger) THEN stash
        ELSE Null

\* The pair api.queryMulti reads for the account: its bonded entry and the
\* ledger entry stored under the account itself.
ControllerPair == <<pIn.bonded, pIn.ledger>>

InitController ==
    /\ pIn \in [accountId : Stashes, bonded : Option(Controllers),
                ledger : Option(LedgerVals), changes : {0}]
    /\ pDone = FALSE
    /\ pOut = [emitted |-> 0, pair |-> <<None, None>>, value |-> Null]
    /\ InitSession
    /\ QueryUnused
    /\ InitMemo
    /\ DevUnused

\* queryMulti delivers the pair it read and map() turns it into the
\* estimated controller.
EstimateControllerEmit ==
    /\ pDone = FALSE
    /\ pDone' = TRUE
    /\ pOut' = [emitted |-> pOut.emitted + 1,
                pair |-> ControllerPair,
                value |-> resolveController(pIn.accountId, ControllerPair)]
    /\ UNCHANGED <<pIn, sessionVars, queryVars, memoVars, devVars>>

\* staking.bonded of the account changes on chain.
BondedChange ==
    /\ pIn.changes < MaxChanges
    /\ \E b \in Option(Controllers) :
          /\ b # pIn.bonded
          /\ pIn' = [pIn EXCEPT !.bonded = b, !.changes = @ + 1]
    /\ pDone' = FALSE
    /\ UNCHANGED <<pOut, sessionVars, queryVars, memoVars, devVars>>

\* staking.ledger stored under the account changes on chain.
LedgerOfAccountChange ==
    /\ pIn.changes < MaxChanges
    /\ \E l \in Option(LedgerVals) :
          /\ l # pIn.ledger
          /\ pIn' = [pIn EXCEPT !.ledger = l, !.changes = @ + 1]
    /\ pDone' = FALSE
    /\ UNCHANGED <<pOut, sessionVars, queryVars, memoVars, devVars>>

NextController ==
    \/ EstimateControllerEmit
    \/ BondedChange
    \/ LedgerOfAccountChange

SpecController == InitController /\ [][NextController]_vars

\* C12: every value estimateController has emitted is resolveController of
\* the pair read: the controller when one is bonded, the account itself when
\* none is bonded and the account has a ledger, null when it has neither; and
\* once the read is delivered the emitted pair is the pair on chain.
C12_ResolveController ==
    /\ pOut.emitted > 0 =>
          LET controller == pOut.pair[1]
              ledger == pOut.pair[2]
          IN  /\ controller # None => pOut.value = controller
              /\ (controller = None /\ ledger # None)
                    => pOut.value = pIn.accountId
              /\ (controller = None /\ ledger = None) => pOut.value = Null
    /\ pDone => (pOut.emitted > 0 /\ pOut.pair = ControllerPair)

\* Reached: after a chain change the account, with no controller bonded and
\* a ledger of its own, is emitted as its own controller.
C12_Witness ==
    /\ pOut.emitted >= 2
    /\ pIn.changes >= 1
    /\ pOut.pair = <<None, Some("L1")>>
    /\ pOut.value = pIn.accountId

(***************************************************************************)
(* Spec: the ledger reads of retrieveController (query.ts 58-83).          *)
(***************************************************************************)
\* The step delivers a value of one of the two outer sources to
\* combineLatest, which then holds a value of both: the outer switchMap
\* receives a tuple.
OuterFired ==
    /\ \/ subQK.active /\ subQK.pending /\ subQK'.active /\ ~subQK'.pending
       \/ subMulti.active /\ subMulti.pending
            /\ subMulti'.active /\ ~subMulti'.pending
    /\ IsSome(clQK')
    /\ IsSome(clMulti')

\* What a step does to the ledger read.
LedgerReadStep ==
    IF OuterFired
    THEN IF clMulti'[1].bonded = None
         THEN ~subLedger'.active
         ELSE /\ subLedger'.active
              /\ subLedger'.pending
              /\ subLedger'.ctrl = clMulti'[1].bonded[1]
              /\ subLedger'.multi = clMulti'
    ELSE subLedger'.active =>
            /\ subLedger.active
            /\ subLedger'.ctrl = subLedger.ctrl
            /\ subLedger'.multi = subLedger.multi

\* C13: a step in which the outer switchMap receives a tuple without a
\* controller leaves no staking-ledger read open; one that receives a tuple
\* with a controller issues a ledger read, not yet answered, keyed by that
\* controller; no other step issues or re-keys a ledger read.
C13_LedgerReadPerTuple == [][LedgerReadStep]_vars

\* Reached: after an earlier result, the current tuple has no controller,
\* its minimal result is the second or later emission and no ledger read is
\* open.
C13_Witness ==
    /\ status = "active"
    /\ IsSome(clMulti)
    /\ clMulti[1].bonded = None
    /\ ~subLedger.active
    /\ nOut >= 2
    /\ lastOutSrc.ledgerOf = Null

(***************************************************************************)
(* SpecSession: the next session ids of unwrapSessionIds (query.ts 18-28). *)
(***************************************************************************)
\* C14: the nextSessionIds of unwrapSessionIds is the empty list when the
\* optional next-keys value is absent and the wrapped list when it is
\* present, whatever the queued-keys table and the stash are.
C14_NextSessionIds ==
    uDone =>
        /\ uIn.nextKeys = None => uOut.nextSessionIds = << >>
        /\ uIn.nextKeys # None => uOut.nextSessionIds = uIn.nextKeys[1]
        /\ \A t \in Tables : \A st \in Stashes :
              unwrapSessionIds(st, t, uIn.nextKeys).nextSessionIds
                  = uOut.nextSessionIds

\* Reached: the next-keys value is absent while the table holds keys for the
\* stash, and the next session ids are empty although the session ids are
\* not.
C14_Witness ==
    /\ uDone
    /\ uIn.nextKeys = None
    /\ uOut.sessionIds # << >>
    /\ uOut.nextSessionIds = << >>

(***************************************************************************)
(* Spec: absent nominators and ledger with a resolved controller.          *)
(***************************************************************************)
\* C15: in a result emitted for a controller, the nominators field is the
\* empty list when the nominators read of its tuple was an empty optional,
\* and stakingLedger is undefined when the ledger read answered with an
\* empty optional; the stream is errored only after a read has failed.
C15_AbsenceAsDefault ==
    /\ (IsSome(lastOut) /\ lastOutSrc.ledgerOf # Null) =>
          /\ OutMulti.nominators = None => OutResult.nominators = << >>
          /\ lastOutSrc.ledger = None => OutResult.stakingLedger = Undefined
    /\ status = "errored" => IsSome(lastErr)

\* Reached: a result for a bonded controller has been delivered from an
\* absent nominators entry and an absent ledger, and the subscription is
\* still open.
C15_Witness ==
    /\ status = "active"
    /\ IsSome(lastOut)
    /\ lastOutSrc.ledgerOf \in Controllers
    /\ lastOutSrc.ledger = None
    /\ OutMulti.nominators = None
    /\ OutResult.controllerId \in Controllers
    /\ OutResult.nominators = << >>
    /\ OutResult.stakingLedger = Undefined

(***************************************************************************)
(* Spec: switchMap drops the ledger read of an earlier tuple.               *)
(***************************************************************************)
\* C16: the last result emitted was built from the tuple that was the most
\* recent one of the outer combined read when it was emitted: without a
\* controller in that tuple it is the minimal result; with one, its
\* controllerId, exposure and session ids are those of that tuple. A ledger
\* read that is open was started for the tuple that is the most recent now,
\* so a read started for an earlier tuple can no longer answer.
C16_NoStaleEmission ==
    /\ IsSome(lastOut) =>
          IF OutMulti.bonded = None
          THEN OutResult = MinimalResult(stashId)
          ELSE LET ids == unwrapSessionIds(stashId, lastOutSrc.qk[1],
                                           OutMulti.nextKeys)
               IN  /\ OutResult.controllerId = OutMulti.bonded[1]
                   /\ OutResult.exposure = OutMulti.exposure
                   /\ OutResult.sessionIds = ids.sessionIds
                   /\ OutResult.nextSessionIds = ids.nextSessionIds
    /\ subLedger.active =>
          /\ subLedger.multi = clMulti
          /\ Some(subLedger.qk) = clQK
          /\ Some(subLedger.ctrl) = clMulti[1].bonded

\* Reached: a result was emitted for controller c1; then the outer read
\* delivered a newer tuple with controller c2, whose ledger read is open and
\* unanswered, and the ledger of c1 has changed on chain without any further
\* emission.
C16_Witness ==
    /\ status = "active"
    /\ nOut = 1
    /\ lastOutSrc.ledgerOf = "c1"
    /\ OutResult.controllerId = "c1"
    /\ OutResult.stakingLedger = "L1"
    /\ chain.ledger["c1"] = None
    /\ clMulti[1].bonded = Some("c2")
    /\ subLedger.active
    /\ subLedger.pending
    /\ subLedger.ctrl = "c2"

(***************************************************************************)
(* SpecMemo: the lists queryMulti emits (query.ts 132-139).                *)
(***************************************************************************)
\* The queryMulti observable subscribed to combines per-account queries.
CombinedSubscribed ==
    /\ mSub.obs # 0
    /\ derive.obs[mSub.obs].fn = "combineLatest"
MultiSources == derive.obs[mSub.obs].sources
MultiIds == derive.obs[mSub.obs].accountIds

\* Nothing has been emitted while some listed account's query has not.
NothingBeforeAll ==
    (\E i \in 1..Len(mSub.latest) : mSub.latest[i] = None) => nMOut = 0

\* C17 as stated: nothing is emitted until every listed account's query has
\* emitted, and every list emitted has n entries whose i-th entry is the
\* latest result of the i-th input account.
C17_LatestOfEveryAccount ==
    CombinedSubscribed =>
        /\ NothingBeforeAll
        /\ \A k \in 1..Len(mLists) :
              /\ Len(mLists[k].list) = Len(MultiIds)
              /\ \A i \in 1..Len(MultiIds) :
                    Some(mLists[k].list[i]) = mSrc[MultiSources[i]]

\* C17, amended: nothing is emitted until every listed account's query has
\* emitted, and every list emitted has n entries. A result of an account
\* reaches the positions of that account one after the other and a list is
\* emitted after each: its i-th entry is the latest result of the i-th
\* account at every position of another account and at the positions
\* updated so far, and the last of these lists holds the latest result of
\* the i-th account at every position i.
C17_LatestPerPosition ==
    CombinedSubscribed =>
        /\ NothingBeforeAll
        /\ \A k \in 1..Len(mLists) :
              /\ Len(mLists[k].list) = Len(MultiIds)
              /\ \A i \in 1..Len(MultiIds) :
                    (\/ i <= mLists[k].at
                     \/ MultiSources[i] # MultiSources[mLists[k].at]
                     \/ k = Len(mLists))
                        => Some(mLists[k].list[i]) = mSrc[MultiSources[i]]
        /\ IsSome(mOut) =>
              /\ Len(mOut[1]) = Len(MultiIds)
              /\ \A i \in 1..Len(MultiIds) :
                    Some(mOut[1][i]) = mSrc[MultiSources[i]]

\* Reached: a list of two distinct accounts has been emitted twice, the
\* second time after one account delivered a newer result, and its entries
\* differ.
C17_Witness ==
    /\ CombinedSubscribed
    /\ MultiIds = <<"s1", "s2">>
    /\ nMOut = 2
    /\ Len(mLists) = 1
    /\ mLists[1].list[1] # mLists[1].list[2]

(***************************************************************************)
(* SpecDeveloper: the Developer settings page (Developer.tsx).             *)
(* JSON values are records of a type tag and the entries in key order;     *)
(* a text is JSON of a value written with some indentation, or no JSON.    *)
(***************************************************************************)
JsonObject(entries) == [t |-> "object", entries |-> entries]
EmptyObject == JsonObject(<< >>)
TypesGood == JsonObject(<< <<"Balance", "u128">> >>)
TypesBad == JsonObject(<< <<"Foo", "NotAType">> >>)
JsonNumber == [t |-> "number", entries |-> << >>]
JsonNull == [t |-> "null", entries |-> << >>]
JsonArray == [t |-> "array", entries |-> << <<"0", "u32">> >>]

\* The type definitions the page starts from (@polkadot/react-darwinia).
DARWINIA_CRAB_TYPES == JsonObject(<< <<"Address", "AccountId">> >>)

JsonVals == {EmptyObject, TypesGood, TypesBad, JsonNumber, JsonNull,
             JsonArray, DARWINIA_CRAB_TYPES}

\* JSON.stringify(value, null, indent) and JSON.parse(text)
JSONstringify(value, indent) ==
    [kind |-> "json", value |-> value, indent |-> indent]
NotJson == [kind |-> "text", value |-> EmptyObject, indent |-> 0]
JSONparseThrows(text) == text.kind # "json"
JSONparse(text) == text.value

\* Object.keys(value), which throws for null
ObjectKeysThrows(value) == value.t = "null"
ObjectKeys(value) == [i \in 1..Len(value.entries) |-> value.entries[i][1]]

EMPTY_CODE == JSONstringify(DARWINIA_CRAB_TYPES, 4)
EMPTY_TYPES == DARWINIA_CRAB_TYPES

\* Texts the user can type or upload, and uploaded files.
Indents == {0, 2}
Docs == {JSONstringify(v, n) : v \in JsonVals, n \in Indents} \cup {NotJson}
stringToU8a(str) == [u8a |-> str]
u8aToString(data) == data.u8a
Files == {stringToU8a(d) : d \in Docs}

\* isJsonObject(code): the answers it can give. The text must parse to a
\* value of typeof 'object'; whether null counts is left open.
isJsonObject(code) ==
    IF JSONparseThrows(code) THEN {FALSE}
    ELSE IF JSONparse(code).t = "null" THEN {TRUE, FALSE}
    ELSE {JSONparse(code).t \in {"object", "array"}}

\* registry.register(types) throws for a definition it cannot resolve.
RegisterThrows(types) ==
    \E i \in 1..Len(types.entries) : types.entries[i][2] = "NotAType"

\* typesPlaceholder: null, the joined keys, or an error message
NoPlaceholder == [kind |-> "null", keys |-> << >>]
KeysPlaceholder(value) == [kind |-> "keys", keys |-> ObjectKeys(value)]
ErrorPlaceholder == [kind |-> "error", keys |-> << >>]

\* store.get('types') || {}
StoredOrEmpty == IF store = None THEN EmptyObject ELSE store[1]

\* _setState (lines 38-44)
setState(code, isJsonValid, isTypesValid, types, typesPlaceholder) ==
    [dev EXCEPT !.code = code, !.isJsonValid = isJsonValid,
                !.isTypesValid = isTypesValid, !.types = types,
                !.typesPlaceholder = typesPlaceholder]

\* The state after construction: the useState defaults (lines 22-26), not
\* yet mounted, over a store that holds types of an earlier visit or none.
InitDeveloper ==
    /\ dev = [code |-> EMPTY_CODE, isJsonValid |-> TRUE, isTypesValid |-> TRUE,
              types |-> EMPTY_TYPES, typesPlaceholder |-> NoPlaceholder,
              mounted |-> FALSE]
    /\ store \in {None, Some(TypesGood), Some(TypesBad)}
    /\ devOut = [last |-> "init", status |-> "none", registered |-> None]
    /\ InitSession
    /\ QueryUnused
    /\ InitMemo
    /\ PureUnused

\* Buttons (lines 116-157)
typesHasNoEntries == ObjectKeys(dev.types) = << >>
ResetEnabled == ~typesHasNoEntries
SaveEnabled == dev.isTypesValid /\ dev.isJsonValid

\* The mount effect (lines 28-36).
Mount ==
    /\ ~dev.mounted
    /\ LET types == StoredOrEmpty
       IN  dev' = IF Len(ObjectKeys(types)) # 0
                  THEN [dev EXCEPT !.code = JSONstringify(types, 2),
                                   !.types = EmptyObject,
                                   !.typesPlaceholder = KeysPlaceholder(types),
                                   !.mounted = TRUE]
                  ELSE [dev EXCEPT !.mounted = TRUE]
    /\ devOut' = [devOut EXCEPT !.last = "mount"]
    /\ UNCHANGED <<store, sessionVars, queryVars, memoVars, pureVars>>

\* _clearTypes (lines 45-55), the Reset button.
clearTypes ==
    /\ dev.mounted
    /\ ResetEnabled
    /\ store' = None
    /\ dev' = setState(EMPTY_CODE, TRUE, TRUE, EMPTY_TYPES, NoPlaceholder)
    /\ devOut' = [devOut EXCEPT !.last = "reset"]
    /\ UNCHANGED <<sessionVars, queryVars, memoVars, pureVars>>

\* _onChangeTypes (lines 56-83): the state it sets for the bytes given.
onChangeTypes(data) ==
    LET code == u8aToString(data)
    IN  IF JSONparseThrows(code) \/ ObjectKeysThrows(JSONparse(code))
        THEN setState(code, FALSE, FALSE, EmptyObject, ErrorPlaceholder)
        ELSE LET types == JSONparse(code)
             IN  setState(code, TRUE, TRUE,
                          IF Len(ObjectKeys(types)) = 0 THEN EmptyObject ELSE types,
                          KeysPlaceholder(types))

\* A file is uploaded (InputFile onChange).
UploadFile ==
    /\ dev.mounted
    /\ \E data \in Files : dev' = onChangeTypes(data)
    /\ devOut' = [devOut EXCEPT !.last = "upload"]
    /\ UNCHANGED <<store, sessionVars, queryVars, memoVars, pureVars>>

\* _onEditTypes (lines 84-96), the editor's onEdit.
onEditTypes ==
    /\ dev.mounted
    /\ \E code \in Docs : \E accepted \in isJsonObject(code) :
          dev' = IF accepted
                 THEN onChangeTypes(stringToU8a(code))
                 ELSE [dev EXCEPT !.code = code, !.isJsonValid = FALSE,
                                  !.typesPlaceholder = ErrorPlaceholder]
    /\ devOut' = [devOut EXCEPT !.last = "edit"]
    /\ UNCHANGED <<store, sessionVars, queryVars, memoVars, pureVars>>

\* A Save that persists the types before registering them.
saveDeveloperStoreFirst ==
    /\ dev.mounted
    /\ SaveEnabled
    /\ store' = Some(dev.types)
    /\ IF RegisterThrows(dev.types)
       THEN /\ dev' = [dev EXCEPT !.isTypesValid = FALSE]
            /\ devOut' = [devOut EXCEPT !.last = "save", !.status = "error"]
       ELSE /\ dev' = [dev EXCEPT !.isTypesValid = TRUE]
            /\ devOut' = [last |-> "save", status |-> "success",
                          registered |-> Some(dev.types)]
    /\ UNCHANGED <<sessionVars, queryVars, memoVars, pureVars>>

\* _saveDeveloper (lines 97-114), the Save button.
saveDeveloper ==
    /\ dev.mounted
    /\ SaveEnabled
    /\ IF RegisterThrows(dev.types)
       THEN /\ dev' = [dev EXCEPT !.isTypesValid = FALSE]
            /\ devOut' = [devOut EXCEPT !.last = "save", !.status = "error"]
            /\ store' = store
       ELSE /\ store' = Some(dev.types)
            /\ dev' = [dev EXCEPT !.isTypesValid = TRUE]
            /\ devOut' = [last |-> "save", status |-> "success",
                          registered |-> Some(dev.types)]
    /\ UNCHANGED <<sessionVars, queryVars, memoVars, pureVars>>

NextDeveloper ==
    \/ Mount
    \/ clearTypes
    \/ UploadFile
    \/ onEditTypes
    \/ saveDeveloper

SpecDeveloper == InitDeveloper /\ [][NextDeveloper]_vars

\* C18: whenever the page is mounted and Save is enabled, the types Save
\* would register and store are the JSON value of the editor's code.
C18_SaveMatchesEditor ==
    (dev.mounted /\ SaveEnabled) =>
        /\ ~JSONparseThrows(dev.code)
        /\ JSONparse(dev.code) = dev.types

\* What a step of the page does to the persisted entry.
SaveStep ==
    /\ (devOut'.last = "save" /\ RegisterThrows(dev.types)) =>
          /\ store' = store
          /\ ~dev'.isTypesValid
          /\ ~(dev'.isTypesValid /\ dev'.isJsonValid)
          /\ devOut'.status = "error"
          /\ devOut'.registered = devOut.registered
    /\ store' # store =>
          \/ devOut'.last = "reset" /\ store' = None
          \/ /\ devOut'.last = "save"
             /\ ~RegisterThrows(dev.types)
             /\ store' = Some(dev.types)
             /\ devOut'.status = "success"

\* C19: a Save whose registration throws leaves the persisted entry as it
\* was, sets isTypesValid to false and reports status 'error'; the persisted
\* entry changes only in a Save that registers (to the current types) and in
\* a Reset (to none). Right after a failed Save the Save button is disabled.
C19_FailedSave == [][SaveStep]_vars

\* Reached: types that cannot be registered were uploaded over stored ones
\* and Save failed: the stored entry is still the earlier one.
C19_Witness ==
    /\ devOut.last = "save"
    /\ devOut.status = "error"
    /\ dev.types = TypesBad
    /\ ~dev.isTypesValid
    /\ store = Some(TypesGood)

(***************************************************************************)
(* SpecPayouts: groupByValidator (page-staking Actions/Account/index.tsx   *)
(* 105-146). A record of entries is the sequence Object.entries gives.     *)
(***************************************************************************)
MaxRewards == 2   \* rewards listed for the first stash

PayoutValidators == {"v1", "v2"}
PayoutEras == {1, 2}
Thresholds == {1, 2, 3}

\* reward.validators of a DeriveStakerReward: validator id and value
ValidatorMaps ==
    { << <<"v1", 1>> >>, << <<"v1", 2>> >>, << <<"v2", 1>> >>,
      << <<"v1", 1>>, <<"v2", 2>> >> }
Rewards == [era : PayoutEras, validators : ValidatorMaps]

\* allRewards: the rewards of one or two stashes, or none
AllRewardsInputs ==
    {<< >>}
    \cup {<< <<"s1", r1>> >> : r1 \in SeqsUpTo(Rewards, MaxRewards)}
    \cup {<< <<"s1", r1>>, <<"s2", r2>> >> :
              r1 \in SeqsUpTo(Rewards, MaxRewards), r2 \in SeqsUpTo(Rewards, 1)}

\* grouped.find by validatorId (line 115) and entry.eras.find by era (line
\* 118), as an index: the first index that passes, 0 if none
FindValidator(grouped, validatorId) ==
    IF \E i \in 1..Len(grouped) : grouped[i].validatorId = validatorId
    THEN CHOOSE i \in 1..Len(grouped) :
            /\ grouped[i].validatorId = validatorId
            /\ \A j \in 1..(i - 1) : grouped[j].validatorId # validatorId
    ELSE 0
FindEra(eras, era) ==
    IF \E i \in 1..Len(eras) : eras[i].era = era
    THEN CHOOSE i \in 1..Len(eras) :
            /\ eras[i].era = era
            /\ \A j \in 1..(i - 1) : eras[j].era # era
    ELSE 0

\* stashes[stashId] = value
SetStash(stashes, stash, value) ==
    [id \in DOMAIN stashes \cup {stash} |->
        IF id = stash THEN value ELSE stashes[id]]
OnlyStash(stash, value) == [id \in {stash} |-> value]

\* The body of the innermost forEach (lines 115-139) for one validator of
\* one reward of one stash.
AddValue(grouped, stash, era, validatorId, value) ==
    LET e == FindValidator(grouped, validatorId)
    IN  IF e # 0
        THEN LET k == FindEra(grouped[e].eras, era)
                 eras == IF k # 0
                         THEN [grouped[e].eras EXCEPT
                                  ![k].stashes = SetStash(@, stash, value)]
                         ELSE Append(grouped[e].eras,
                                     [era |-> era,
                                      stashes |-> OnlyStash(stash, value)])
             IN  [grouped EXCEPT ![e].eras = eras,
                                 ![e].available = @ + value]
        ELSE Append(grouped,
                    [available |-> value,
                     eras |-> <<[era |-> era,
                                 stashes |-> OnlyStash(stash, value)]>>,
                     validatorId |-> validatorId])

\* Object.entries(reward.validators).forEach (lines 112-114)
RECURSIVE AddValidators(_, _, _, _)
AddValidators(grouped, stash, era, validators) ==
    IF validators = << >> THEN grouped
    ELSE AddValidators(AddValue(grouped, stash, era,
                                Head(validators)[1], Head(validators)[2]),
                       stash, era, Tail(validators))

\* rewards.forEach (line 111) without the filter of line 110
RECURSIVE AddAllRewards(_, _, _)
AddAllRewards(grouped, stash, rewards) ==
    IF rewards = << >> THEN grouped
    ELSE AddAllRewards(AddValidators(grouped, stash, Head(rewards).era,
                                     Head(rewards).validators),
                       stash, Tail(rewards))

\* .sort((a, b) => b.available.cmp(a.available)): descending and stable
RECURSIVE SortByAvailable(_)
SortByAvailable(grouped) ==
    IF grouped = << >> THEN << >>
    ELSE LET n == Len(grouped)
             last == grouped[n]
             sorted == SortByAvailable(SubSeq(grouped, 1, n - 1))
             ahead == {i \in 1..Len(sorted) : sorted[i].available >= last.available}
             k == Cardinality(ahead)
         IN  SubSeq(sorted, 1, k) \o <<last>> \o SubSeq(sorted, k + 1, Len(sorted))

\* A grouping that leaves out the filter on the era.
RECURSIVE ReduceUnfiltered(_, _)
ReduceUnfiltered(grouped, entries) ==
    IF entries = << >> THEN grouped
    ELSE ReduceUnfiltered(AddAllRewards(grouped, Head(entries)[1], Head(entries)[2]),
                          Tail(entries))
groupByValidatorUnfiltered(allRewards, stakerPayoutsAfter) ==
    SortByAvailable(ReduceUnfiltered(<< >>, allRewards))

\* rewards.filter(({ era }) => era.gte(stakerPayoutsAfter)) (line 110)
FilterRewards(rewards, stakerPayoutsAfter) ==
    LET Later(reward) == reward.era >= stakerPayoutsAfter
    IN  SelectSeq(rewards, Later)

\* The reduce over Object.entries(allRewards) (lines 106-108, 143-144)
RECURSIVE Reduce(_, _, _)
Reduce(grouped, entries, stakerPayoutsAfter) ==
    IF entries = << >> THEN grouped
    ELSE Reduce(AddAllRewards(grouped, Head(entries)[1],
                              FilterRewards(Head(entries)[2], stakerPayoutsAfter)),
                Tail(entries), stakerPayoutsAfter)

groupByValidator(allRewards, stakerPayoutsAfter) ==
    SortByAvailable(Reduce(<< >>, allRewards, stakerPayoutsAfter))

InitPayouts ==
    /\ InitSession
    /\ QueryUnused
    /\ InitMemo
    /\ DevUnused
    /\ pDone = FALSE
    /\ pOut = << >>
    /\ pIn \in [allRewards : AllRewardsInputs, stakerPayoutsAfter : Thresholds]

ApplyGroupByValidator ==
    /\ ~pDone
    /\ pDone' = TRUE
    /\ pOut' = groupByValidator(pIn.allRewards, pIn.stakerPayoutsAfter)
    /\ UNCHANGED <<pIn, sessionVars, queryVars, memoVars, devVars>>

NextPayouts == ApplyGroupByValidator

SpecPayouts == InitPayouts /\ [][NextPayouts]_vars

\* The sum of the values of a stashes map, and of all maps of an entry.
RECURSIVE SumOver(_, _)
SumOver(f, S) ==
    IF S = {} THEN 0
    ELSE LET x == CHOOSE y \in S : TRUE
         IN  f[x] + SumOver(f, S \ {x})
StashSum(entry) ==
    LET perEra == [k \in 1..Len(entry.eras) |->
                      SumOver(entry.eras[k].stashes, DOMAIN entry.eras[k].stashes)]
    IN  SumOver(perEra, 1..Len(entry.eras))

\* The places of the input that name a validator in a reward whose era is not
\* before the threshold: <<stash index, reward index, validator index>>.
Contributing(validatorId) ==
    {<<i, j, k>> \in (1..2) \X (1..(MaxRewards + 1)) \X (1..2) :
        /\ i <= Len(pIn.allRewards)
        /\ j <= Len(pIn.allRewards[i][2])
        /\ k <= Len(pIn.allRewards[i][2][j].validators)
        /\ pIn.allRewards[i][2][j].era >= pIn.stakerPayoutsAfter
        /\ pIn.allRewards[i][2][j].validators[k][1] = validatorId}
StashAt(c) == pIn.allRewards[c[1]][1]
EraAt(c) == pIn.allRewards[c[1]][2][c[2]].era
ValueAt(c) == pIn.allRewards[c[1]][2][c[2]].validators[c[3]][2]
ContributedSum(validatorId) ==
    SumOver([c \in Contributing(validatorId) |-> ValueAt(c)],
            Contributing(validatorId))

\* A stash has two contributing rewards of one era that name the validator.
RepeatedEra(validatorId) ==
    \E c \in Contributing(validatorId) : \E d \in Contributing(validatorId) :
        c # d /\ StashAt(c) = StashAt(d) /\ EraAt(c) = EraAt(d)

\* Only rewards whose era is not before the threshold contribute, and all of
\* them do: each era entry and each stash of its map comes from such a
\* reward, and each such reward has its stash in the map of its era.
OnlyLaterEras(entry) ==
    /\ \A k \in 1..Len(entry.eras) :
          /\ entry.eras[k].era >= pIn.stakerPayoutsAfter
          /\ \A st \in DOMAIN entry.eras[k].stashes :
                \E c \in Contributing(entry.validatorId) :
                    /\ StashAt(c) = st
                    /\ EraAt(c) = entry.eras[k].era
                    /\ ValueAt(c) = entry.eras[k].stashes[st]
    /\ \A c \in Contributing(entry.validatorId) :
          \E k \in 1..Len(entry.eras) :
              /\ entry.eras[k].era = EraAt(c)
              /\ StashAt(c) \in DOMAIN entry.eras[k].stashes

\* Each era appears at most once in the eras list of an entry.
ErasOnce(entry) ==
    \A k \in 1..Len(entry.eras) : \A l \in 1..Len(entry.eras) :
        entry.eras[k].era = entry.eras[l].era => k = l

====
